---- MODULE Spec2Model ----
(***************************************************************************)
(* Model of the study assistant: the HomePage component (the session form  *)
(* and the conditional render of the runner) and the StudySession          *)
(* component (the concepts / practice / review runner).                    *)
(*                                                                         *)
(* Every useState cell of the two components is one variable named as in   *)
(* the source.  The values of the form fields (kept by react-hook-form),   *)
(* the text of the runner's textarea, the last toast, the clock read by    *)
(* Date.now() and the number of generateStudyContent calls suspended at    *)
(* their await are the remaining variables.                                *)
(* One action is one event handler, run to completion: React re-renders    *)
(* between two events, so a handler always reads the state the previous    *)
(* one left.                                                               *)
(***************************************************************************)
EXTENDS Integers, Sequences, FiniteSets, TLC

\* ------------------------------------------------------------------ bounds

\* Number of clock steps the model lets pass.
MaxTicks == 2

\* Topics the user may type: empty, too short, and of the least valid length.
Topics == {"", "ab", "abc"}

\* Texts the user may type into the textarea of an open-ended question.
Texts == {"", "my answer"}

\* ------------------------------------------------------- program constants

\* Milliseconds per clock step (45 s, so that minutes and seconds both vary).
TickMs == 45000

\* minLength of the topic field.
MinTopicLength == 3

\* No value.  Null is the null of studyContent and studyData, Undefined the
\* undefined of an absent optional string (correctAnswer, a missing key of
\* userAnswers), NoQuestion the undefined getCurrentQuestion returns.
Null == [null |-> TRUE]
Undefined == "<undefined>"
NoQuestion == [undefined |-> TRUE]

Difficulties == {"beginner", "intermediate", "advanced"}
Focuses == {"concepts", "practice", "review", "mixed"}
Steps == {"concepts", "practice", "review"}

\* The toasts of the two components.
ToastNone == "none"
ToastStarting == "Starting study session"
ToastStartFailed == "Failed to start study session"
ToastEnded == "Study session ended. Great work!"
ToastGenerated == "Study content generated successfully!"
ToastGenFailed == "Failed to generate study content"

\* The validation messages of the topic field.
NoError == "none"
ErrRequired == "Topic is required"
ErrMinLength == "Topic must be at least 3 characters"

VARIABLES
    \* HomePage
    isStudying, currentTopic, studyData,
    \* react-hook-form: field values, errors.topic, formState.isSubmitted
    formValues, topicError, isSubmitted,
    \* StudySession
    currentStep, studyContent, currentQuestionIndex, userAnswers,
    showExplanation, isLoading, sessionStartTime,
    \* the text in the (uncontrolled) textarea of an open-ended question
    textarea,
    \* generateStudyContent calls suspended at their await: of the mounted
    \* StudySession, and of StudySession instances already unmounted
    inFlight, staleInFlight,
    \* react-hot-toast: the last toast; Date.now() in clock steps
    toast, now

homeVars == <<isStudying, currentTopic, studyData>>
formVars == <<formValues, topicError, isSubmitted>>
sessionVars == <<currentStep, studyContent, currentQuestionIndex, userAnswers,
                 showExplanation, isLoading, sessionStartTime, textarea>>
vars == <<isStudying, currentTopic, studyData, formValues, topicError,
          isSubmitted, currentStep, studyContent, currentQuestionIndex,
          userAnswers, showExplanation, isLoading, sessionStartTime,
          textarea, inFlight, staleInFlight, toast, now>>

\* ------------------------------------------------------------ StudyContent

\* The content generateStudyContent builds for a topic.  A concept, a prompt,
\* an explanation and the summary are template strings over the topic: each
\* is kept as its template's name paired with the topic.  The open-ended
\* question has no options (the empty sequence: options is only ever read
\* through options?.map, which renders nothing) and no correctAnswer.
mockContent(topic) ==
    [ concepts  |-> << <<"Core Concept 1", topic>>, <<"Core Concept 2", topic>>,
                       <<"Core Concept 3">>, <<"Core Concept 4">> >>,
      questions |-> <<
        [ id |-> "1",
          question |-> <<"What is the primary definition of", topic>>,
          options |-> << "Option A: Basic definition",
                         "Option B: Advanced definition",
                         "Option C: Technical definition",
                         "Option D: Simplified definition" >>,
          correctAnswer |-> "Option A: Basic definition",
          explanation |-> <<"The primary definition", topic>>,
          type |-> "multiple-choice" ],
        [ id |-> "2",
          question |-> <<"Explain how it relates to its field", topic>>,
          options |-> << >>,
          correctAnswer |-> Undefined,
          explanation |-> <<"serves as a foundational element", topic>>,
          type |-> "open-ended" ],
        [ id |-> "3",
          question |-> <<"True or False: only relevant in academic settings", topic>>,
          options |-> << "True", "False" >>,
          correctAnswer |-> "False",
          explanation |-> <<"has practical applications", topic>>,
          type |-> "true-false" ] >>,
      summary |-> <<"represents a fundamental area of study", topic>> ]

\* studyContent?.questions.length || 0
QuestionCount(content) ==
    IF content = Null THEN 0 ELSE Len(content.questions)

\* getCurrentQuestion: undefined when there is no content or no such index.
getCurrentQuestion(content, index) ==
    IF content = Null THEN NoQuestion
    ELSE IF index + 1 \in DOMAIN content.questions
         THEN content.questions[index + 1]
         ELSE NoQuestion

\* The id read from the question after the current one.
CurrentQuestionId_NextQuestion(content, index) ==
    LET q == getCurrentQuestion(content, index + 1)
    IN  IF q = NoQuestion THEN "" ELSE q.id

\* getCurrentQuestion()?.id || ''
CurrentQuestionId(content, index) ==
    LET q == getCurrentQuestion(content, index)
    IN  IF q = NoQuestion THEN "" ELSE q.id

\* getCurrentQuestion()?.type
CurrentQuestionType(content, index) ==
    LET q == getCurrentQuestion(content, index)
    IN  IF q = NoQuestion THEN Undefined ELSE q.type

\* The options rendered as buttons for the current question.
CurrentOptions(content, index) ==
    LET q == getCurrentQuestion(content, index)
    IN  IF q = NoQuestion THEN {}
        ELSE {q.options[i] : i \in DOMAIN q.options}

\* ------------------------------------------------------------ Record<string,string>

\* userAnswers[key]: undefined for a key the record lacks.
Lookup(record, key) ==
    IF key \in DOMAIN record THEN record[key] ELSE Undefined

\* { ...prev, [key]: value }
Spread(prev, key, value) ==
    [k \in (DOMAIN prev) \cup {key} |-> IF k = key THEN value ELSE prev[k]]

\* {}
EmptyRecord == [k \in {} |-> Undefined]

\* ------------------------------------------------------------ views

\* HomePage renders StudySession instead of the form.
Mounted == isStudying /\ studyData # Null

\* What is on the screen: the form, or one of StudySession's four returns.
View ==
    IF ~Mounted THEN "form"
    ELSE IF isLoading THEN "loading"
    ELSE IF studyContent = Null THEN "failed"
    ELSE currentStep

\* The last return of StudySession: header, progress steps, content area.
MainView == View \in Steps

\* ------------------------------------------------------------ StudySession handlers

\* The state cells the click handlers read and write, as one value.
Runtime ==
    [ currentStep |-> currentStep,
      currentQuestionIndex |-> currentQuestionIndex,
      userAnswers |-> userAnswers,
      showExplanation |-> showExplanation ]

\* handleAnswerSubmit without the spread of the previous answers.
handleAnswerSubmit_NoSpread(s, questionId, answer) ==
    [s EXCEPT !.userAnswers = Spread(EmptyRecord, questionId, answer),
              !.showExplanation = TRUE]

handleAnswerSubmit(s, questionId, answer) ==
    [s EXCEPT !.userAnswers = Spread(@, questionId, answer),
              !.showExplanation = TRUE]

\* handleNextQuestion comparing with the length instead of the last index.
handleNextQuestion_OffByOne(s, content) ==
    IF s.currentQuestionIndex < QuestionCount(content)
    THEN [s EXCEPT !.currentQuestionIndex = @ + 1, !.showExplanation = FALSE]
    ELSE [s EXCEPT !.currentStep = "review"]

\* handleNextQuestion hiding the explanation only when it finishes.
handleNextQuestion_KeepsExplanation(s, content) ==
    IF s.currentQuestionIndex < QuestionCount(content) - 1
    THEN [s EXCEPT !.currentQuestionIndex = @ + 1]
    ELSE [s EXCEPT !.currentStep = "review", !.showExplanation = FALSE]

handleNextQuestion(s, content) ==
    IF s.currentQuestionIndex < QuestionCount(content) - 1
    THEN [s EXCEPT !.currentQuestionIndex = @ + 1, !.showExplanation = FALSE]
    ELSE [s EXCEPT !.currentStep = "review"]

\* handlePreviousQuestion without its test of the index.
handlePreviousQuestion_NoGuard(s) ==
    [s EXCEPT !.currentQuestionIndex = @ - 1, !.showExplanation = FALSE]

handlePreviousQuestion(s) ==
    IF s.currentQuestionIndex > 0
    THEN [s EXCEPT !.currentQuestionIndex = @ - 1, !.showExplanation = FALSE]
    ELSE s

\* Math.round(num / den) for num >= 0, den > 0: halves round up.
MathRound(num, den) == (2 * num + den) \div (2 * den)

\* The forEach of calculateScore over questions[i..]: the number of questions
\* whose correctAnswer is truthy and strictly equal to the recorded answer.
RECURSIVE CountCorrect(_, _, _)
CountCorrect(questions, answers, i) ==
    IF i > Len(questions) THEN 0
    ELSE LET q == questions[i]
             hit == /\ q.correctAnswer # Undefined
                    /\ q.correctAnswer # ""
                    /\ Lookup(answers, q.id) = q.correctAnswer
         IN  (IF hit THEN 1 ELSE 0) + CountCorrect(questions, answers, i + 1)

\* calculateScore dividing by the number of questions that have a
\* correctAnswer instead of by the number of questions.
calculateScore_ScoredOnly(content, answers) ==
    IF content = Null THEN 0
    ELSE LET scored == {i \in DOMAIN content.questions :
                           content.questions[i].correctAnswer # Undefined}
         IN  MathRound(CountCorrect(content.questions, answers, 1) * 100,
                       Cardinality(scored))

calculateScore(content, answers) ==
    IF content = Null THEN 0
    ELSE MathRound(CountCorrect(content.questions, answers, 1) * 100,
                   Len(content.questions))

\* getSessionDuration at clock step t: minutes, and the two digits of the
\* zero-padded seconds.
getSessionDuration(start, t) ==
    LET duration == (t - start) * TickMs
        minutes == duration \div 60000
        seconds == (duration % 60000) \div 1000
    IN  <<minutes, seconds \div 10, seconds % 10>>

\* The textarea exists only while the open-ended block is rendered: it keeps
\* its text from one render to the next, and a new one is empty.
TextareaShown(step, content, index, loading) ==
    /\ ~loading
    /\ step = "practice"
    /\ CurrentQuestionType(content, index) = "open-ended"

\* ------------------------------------------------------------ the form

\* useForm() with no defaultValues: an empty text input, and each select
\* showing its first option.
DefaultValues ==
    [topic |-> "", difficulty |-> "beginner", focus |-> "concepts"]

\* The topic registered with the required rule alone.
validateTopic_NoMinLength(topic) ==
    IF topic = "" THEN ErrRequired ELSE NoError

\* register('topic', {required, minLength}): required is checked first.
validateTopic(topic) ==
    IF topic = "" THEN ErrRequired
    ELSE IF Len(topic) < MinTopicLength THEN ErrMinLength
    ELSE NoError

\* The user edits the topic input.  After a first submit the field is
\* validated again on every change (reValidateMode: onChange).
ChangeTopic(topic) ==
    /\ View = "form"
    /\ topic # formValues.topic
    /\ formValues' = [formValues EXCEPT !.topic = topic]
    /\ topicError' = IF isSubmitted THEN validateTopic(topic) ELSE topicError
    /\ UNCHANGED <<isSubmitted, homeVars, sessionVars, inFlight, staleInFlight,
                   toast, now>>

ChangeDifficulty(difficulty) ==
    /\ View = "form"
    /\ difficulty # formValues.difficulty
    /\ formValues' = [formValues EXCEPT !.difficulty = difficulty]
    /\ UNCHANGED <<topicError, isSubmitted, homeVars, sessionVars, inFlight,
                   staleInFlight, toast, now>>

ChangeFocus(focus) ==
    /\ View = "form"
    /\ focus # formValues.focus
    /\ formValues' = [formValues EXCEPT !.focus = focus]
    /\ UNCHANGED <<topicError, isSubmitted, homeVars, sessionVars, inFlight,
                   staleInFlight, toast, now>>

\* ------------------------------------------------------------ StudySession mount

\* A mount whose answers, index and explanation flag live outside the
\* component and survive it.
Mount_KeepsAnswers ==
    /\ currentStep' = "concepts"
    /\ studyContent' = Null
    /\ UNCHANGED <<currentQuestionIndex, userAnswers, showExplanation>>
    /\ isLoading' = TRUE
    /\ sessionStartTime' = now
    /\ textarea' = ""
    /\ inFlight' = 1

\* A mount whose effect runs twice.
Mount_GeneratesTwice ==
    /\ currentStep' = "concepts"
    /\ studyContent' = Null
    /\ currentQuestionIndex' = 0
    /\ userAnswers' = EmptyRecord
    /\ showExplanation' = FALSE
    /\ isLoading' = TRUE
    /\ sessionStartTime' = now
    /\ textarea' = ""
    /\ inFlight' = 2

\* The first render of a StudySession: the useState initialisers, then the
\* effect, which calls generateStudyContent up to its await.
Mount ==
    /\ currentStep' = "concepts"
    /\ studyContent' = Null
    /\ currentQuestionIndex' = 0
    /\ userAnswers' = EmptyRecord
    /\ showExplanation' = FALSE
    /\ isLoading' = TRUE
    /\ sessionStartTime' = now
    /\ textarea' = ""
    /\ inFlight' = 1

\* handleSubmit(onSubmit): validation; with no error, onSubmit, whose three
\* state updates make HomePage render a new StudySession.
SubmitForm ==
    /\ View = "form"
    /\ isSubmitted' = TRUE
    /\ topicError' = validateTopic(formValues.topic)
    /\ UNCHANGED <<formValues, staleInFlight, now>>
    /\ IF validateTopic(formValues.topic) # NoError
       THEN UNCHANGED <<homeVars, sessionVars, inFlight, toast>>
       ELSE /\ currentTopic' = formValues.topic
            /\ studyData' = formValues
            /\ isStudying' = TRUE
            /\ toast' = ToastStarting
            /\ Mount

\* handleSubmit(onSubmit) in which toast.success throws: the three state
\* updates before it are already queued and are applied when the handler
\* returns, and the catch block shows the failure toast.
SubmitFormThrows ==
    /\ View = "form"
    /\ validateTopic(formValues.topic) = NoError
    /\ isSubmitted' = TRUE
    /\ topicError' = NoError
    /\ currentTopic' = formValues.topic
    /\ studyData' = formValues
    /\ isStudying' = TRUE
    /\ toast' = ToastStartFailed
    /\ Mount
    /\ UNCHANGED <<formValues, staleInFlight, now>>

\* handleEndSession without reset().
EndSession_NoReset ==
    /\ MainView
    /\ isStudying' = FALSE
    /\ currentTopic' = ""
    /\ studyData' = Null
    /\ toast' = ToastEnded
    /\ staleInFlight' = staleInFlight + inFlight
    /\ inFlight' = 0
    /\ UNCHANGED <<formVars, sessionVars, now>>

\* An End Session button offered in the loading view too.
EndSession_WhileLoading ==
    /\ Mounted
    /\ isStudying' = FALSE
    /\ currentTopic' = ""
    /\ studyData' = Null
    /\ formValues' = DefaultValues
    /\ topicError' = NoError
    /\ isSubmitted' = FALSE
    /\ toast' = ToastEnded
    /\ staleInFlight' = staleInFlight + inFlight
    /\ inFlight' = 0
    /\ UNCHANGED <<sessionVars, now>>

\* onEndSession, from the header button or the review button: handleEndSession
\* with reset(), after which HomePage renders the form and the StudySession
\* is unmounted.  Its state cells are dropped (they keep their last values
\* here and are read by nothing until Mount overwrites them); a generation
\* still suspended would belong to no mounted component.
EndSession ==
    /\ MainView
    /\ isStudying' = FALSE
    /\ currentTopic' = ""
    /\ studyData' = Null
    /\ formValues' = DefaultValues
    /\ topicError' = NoError
    /\ isSubmitted' = FALSE
    /\ toast' = ToastEnded
    /\ staleInFlight' = staleInFlight + inFlight
    /\ inFlight' = 0
    /\ UNCHANGED <<sessionVars, now>>

\* ------------------------------------------------------------ content generation

\* A resolution that ends loading with the questions not yet filled in.
GenerationResolves_Partial ==
    \E own \in {b \in BOOLEAN : IF b THEN inFlight > 0 ELSE staleInFlight > 0} :
        /\ toast' = ToastGenerated
        /\ IF own
           THEN /\ studyContent' =
                       [mockContent(currentTopic) EXCEPT !.questions = << >>]
                /\ isLoading' = FALSE
                /\ inFlight' = inFlight - 1
                /\ UNCHANGED <<currentStep, currentQuestionIndex, userAnswers,
                               showExplanation, sessionStartTime, textarea,
                               staleInFlight>>
           ELSE /\ staleInFlight' = staleInFlight - 1
                /\ UNCHANGED <<sessionVars, inFlight>>
        /\ UNCHANGED <<homeVars, formVars, now>>

\* The awaited delay of a generateStudyContent call elapses.  The call of the
\* mounted StudySession stores the content and ends loading; the state
\* updates of a call whose StudySession is unmounted are dropped by React,
\* and only its toast is shown.
GenerationResolves ==
    \E own \in {b \in BOOLEAN : IF b THEN inFlight > 0 ELSE staleInFlight > 0} :
        /\ toast' = ToastGenerated
        /\ IF own
           THEN /\ studyContent' = mockContent(currentTopic)
                /\ isLoading' = FALSE
                /\ inFlight' = inFlight - 1
                /\ UNCHANGED <<currentStep, currentQuestionIndex, userAnswers,
                               showExplanation, sessionStartTime, textarea,
                               staleInFlight>>
           ELSE /\ staleInFlight' = staleInFlight - 1
                /\ UNCHANGED <<sessionVars, inFlight>>
        /\ UNCHANGED <<homeVars, formVars, now>>

\* The catch block of generateStudyContent: the awaited call rejects.
GenerationRejects ==
    \E own \in {b \in BOOLEAN : IF b THEN inFlight > 0 ELSE staleInFlight > 0} :
        /\ toast' = ToastGenFailed
        /\ IF own
           THEN inFlight' = inFlight - 1 /\ UNCHANGED staleInFlight
           ELSE staleInFlight' = staleInFlight - 1 /\ UNCHANGED inFlight
        /\ UNCHANGED <<homeVars, formVars, sessionVars, now>>

\* 'Try Again' of the Failed to Load Content view: generateStudyContent again.
\* The view is shown in no reachable state (isLoading is cleared only together
\* with setStudyContent), so the action is no disjunct of Next; formulas
\* refer to it through ENABLED.
TryAgain ==
    /\ View = "failed"
    /\ isLoading' = TRUE
    /\ inFlight' = inFlight + 1
    /\ UNCHANGED <<homeVars, formVars, currentStep, studyContent,
                   currentQuestionIndex, userAnswers, showExplanation,
                   sessionStartTime, textarea, staleInFlight, toast, now>>

\* ------------------------------------------------------------ StudySession events

\* The handlers' result written back to the state cells.  The textarea keeps
\* its text only if the open-ended block is rendered before and after.
Becomes(s) ==
    /\ currentStep' = s.currentStep
    /\ currentQuestionIndex' = s.currentQuestionIndex
    /\ userAnswers' = s.userAnswers
    /\ showExplanation' = s.showExplanation
    /\ textarea' =
         IF /\ TextareaShown(currentStep, studyContent, currentQuestionIndex,
                             isLoading)
            /\ TextareaShown(s.currentStep, studyContent,
                             s.currentQuestionIndex, isLoading)
         THEN textarea ELSE ""
    /\ UNCHANGED <<studyContent, isLoading, sessionStartTime, homeVars,
                   formVars, inFlight, staleInFlight, toast, now>>

\* 'Continue to Practice'
ContinueToPractice ==
    /\ View = "concepts"
    /\ Becomes([Runtime EXCEPT !.currentStep = "practice"])

\* Option buttons that stay enabled while the explanation is shown.
SelectOption_NotDisabled(option) ==
    /\ View = "practice"
    /\ CurrentQuestionType(studyContent, currentQuestionIndex)
           \in {"multiple-choice", "true-false"}
    /\ option \in CurrentOptions(studyContent, currentQuestionIndex)
    /\ Becomes(handleAnswerSubmit(Runtime,
           CurrentQuestionId(studyContent, currentQuestionIndex), option))

\* An option button of a multiple-choice or true-false question; the buttons
\* are disabled while the explanation is shown.
SelectOption(option) ==
    /\ View = "practice"
    /\ CurrentQuestionType(studyContent, currentQuestionIndex)
           \in {"multiple-choice", "true-false"}
    /\ option \in CurrentOptions(studyContent, currentQuestionIndex)
    /\ ~showExplanation
    /\ Becomes(handleAnswerSubmit(Runtime,
           CurrentQuestionId(studyContent, currentQuestionIndex), option))

\* onChange replacing the record by the one answer typed.
TypeAnswer_NoSpread(text) ==
    /\ View = "practice"
    /\ CurrentQuestionType(studyContent, currentQuestionIndex) = "open-ended"
    /\ text # textarea
    /\ currentStep' = currentStep
    /\ currentQuestionIndex' = currentQuestionIndex
    /\ userAnswers' = Spread(EmptyRecord,
           CurrentQuestionId(studyContent, currentQuestionIndex), text)
    /\ showExplanation' = showExplanation
    /\ textarea' = text
    /\ UNCHANGED <<studyContent, isLoading, sessionStartTime, homeVars,
                   formVars, inFlight, staleInFlight, toast, now>>

\* onChange of the textarea of an open-ended question.
TypeAnswer(text) ==
    /\ View = "practice"
    /\ CurrentQuestionType(studyContent, currentQuestionIndex) = "open-ended"
    /\ text # textarea
    /\ currentStep' = currentStep
    /\ currentQuestionIndex' = currentQuestionIndex
    /\ userAnswers' = Spread(userAnswers,
           CurrentQuestionId(studyContent, currentQuestionIndex), text)
    /\ showExplanation' = showExplanation
    /\ textarea' = text
    /\ UNCHANGED <<studyContent, isLoading, sessionStartTime, homeVars,
                   formVars, inFlight, staleInFlight, toast, now>>

\* 'Submit Answer' of an open-ended question.
SubmitAnswer ==
    /\ View = "practice"
    /\ CurrentQuestionType(studyContent, currentQuestionIndex) = "open-ended"
    /\ Becomes([Runtime EXCEPT !.showExplanation = TRUE])

\* 'Next' / 'Finish'
ClickNext ==
    /\ View = "practice"
    /\ Becomes(handleNextQuestion(Runtime, studyContent))

\* 'Previous', disabled at index 0.
ClickPrevious ==
    /\ View = "practice"
    /\ currentQuestionIndex # 0
    /\ Becomes(handlePreviousQuestion(Runtime))

\* 'Review Again' starting over: answers dropped.
ReviewAgain_ClearsAnswers ==
    /\ View = "review"
    /\ Becomes([Runtime EXCEPT !.currentStep = "concepts",
                               !.userAnswers = EmptyRecord])

\* 'Review Again' going straight back to practice.
ReviewAgain_ToPractice ==
    /\ View = "review"
    /\ Becomes([Runtime EXCEPT !.currentStep = "practice"])

\* 'Review Again'
ReviewAgain ==
    /\ View = "review"
    /\ Becomes([Runtime EXCEPT !.currentStep = "concepts"])

\* Time passes.
Tick ==
    /\ now < MaxTicks
    /\ now' = now + 1
    /\ UNCHANGED <<homeVars, formVars, sessionVars, inFlight, staleInFlight,
                   toast>>

\* ------------------------------------------------------------ specifications

Init ==
    /\ isStudying = FALSE
    /\ currentTopic = ""
    /\ studyData = Null
    /\ formValues = DefaultValues
    /\ topicError = NoError
    /\ isSubmitted = FALSE
    /\ currentStep = "concepts"
    /\ studyContent = Null
    /\ currentQuestionIndex = 0
    /\ userAnswers = EmptyRecord
    /\ showExplanation = FALSE
    /\ isLoading = TRUE
    /\ sessionStartTime = 0
    /\ textarea = ""
    /\ inFlight = 0
    /\ staleInFlight = 0
    /\ toast = ToastNone
    /\ now = 0

Next ==
    \/ \E topic \in Topics : ChangeTopic(topic)
    \/ \E difficulty \in Difficulties : ChangeDifficulty(difficulty)
    \/ \E focus \in Focuses : ChangeFocus(focus)
    \/ SubmitForm
    \/ EndSession
    \/ GenerationResolves
    \/ ContinueToPractice
    \/ \E option \in CurrentOptions(studyContent, currentQuestionIndex) :
           SelectOption(option)
    \/ \E text \in Texts : TypeAnswer(text)
    \/ SubmitAnswer
    \/ ClickNext
    \/ ClickPrevious
    \/ ReviewAgain
    \/ Tick

\* The program as written: the awaited delay of generateStudyContent cannot
\* reject.
Spec == Init /\ [][Next]_vars

\* The program with the content generation boundary allowed to fail (the
\* real API call the delay stands for).
NextGenFails == Next \/ GenerationRejects

SpecGenFails == Init /\ [][NextGenFails]_vars

\* The program with the success notification of onSubmit allowed to throw.
NextSubmitThrows == Next \/ SubmitFormThrows

SpecSubmitThrows == Init /\ [][NextSubmitThrows]_vars

\* ------------------------------------------------------------ claims: the score

\* The score the review view shows.
Score == calculateScore(studyContent, userAnswers)

\* The questions of the session, by position.
Questions == IF studyContent = Null THEN << >> ELSE studyContent.questions

\* Every question that has a correctAnswer was answered with it.
AllScoredCorrect ==
    \A i \in DOMAIN Questions :
        Questions[i].correctAnswer # Undefined
            => Lookup(userAnswers, Questions[i].id) = Questions[i].correctAnswer

\* No recorded answer is its question's correctAnswer.
NoneCorrect ==
    \A i \in DOMAIN Questions :
        Questions[i].id \in DOMAIN userAnswers
            => userAnswers[Questions[i].id] # Questions[i].correctAnswer

\* C1: in review, the score is 100 when every question that has a
\* correctAnswer was answered with it, and 0 when no recorded answer is its
\* question's correctAnswer.
C1_AllCorrectIs100 ==
    View = "review" =>
        /\ AllScoredCorrect => Score = 100
        /\ NoneCorrect => Score = 0

\* The positions of the questions counted correct: those that have a
\* correctAnswer and whose recorded answer is exactly it.
CorrectPositions ==
    {i \in DOMAIN Questions :
        /\ Questions[i].correctAnswer # Undefined
        /\ Questions[i].id \in DOMAIN userAnswers
        /\ userAnswers[Questions[i].id] = Questions[i].correctAnswer}

\* C2: in review, the score is 100 * correct / total rounded to the nearest
\* integer (halves up), where correct counts the questions that have a
\* correctAnswer answered exactly with it and total counts every question,
\* open-ended ones included; an open-ended question is never counted correct;
\* with 3 questions, the 2 scored ones answered correctly, the score is 67.
C2_ScoreOverAllQuestions ==
    View = "review" =>
        LET correct == Cardinality(CorrectPositions)
            total == Len(Questions)
        IN  /\ 2 * Score * total - total <= 200 * correct
            /\ 200 * correct < 2 * Score * total + total
            /\ \A i \in CorrectPositions : Questions[i].type # "open-ended"
            /\ (total = 3 /\ correct = 2 /\ AllScoredCorrect) => Score = 67

\* C2 witness: review after both scored questions of three were answered
\* correctly and the open-ended one was answered too.
C2_Witness ==
    /\ View = "review"
    /\ Len(Questions) = 3
    /\ Cardinality(CorrectPositions) = 2
    /\ "2" \in DOMAIN userAnswers
    /\ Score = 67

\* ------------------------------------------------------------ claims: navigation

\* The state after 'next' was pressed k times in a row from s.
RECURSIVE PressNext(_, _, _)
PressNext(s, content, k) ==
    IF k = 0 THEN s
    ELSE handleNextQuestion(PressNext(s, content, k - 1), content)

\* C3: from practice at index 0 of a session with N questions, the k-th
\* press of 'next' in a row makes question k current for every k < N, so
\* that the indices 0..N-1 are current once each in increasing order, and
\* the N-th press, and no earlier one, enters review.
C3_NextVisitsEveryQuestion ==
    (View = "practice" /\ currentQuestionIndex = 0) =>
        LET N == QuestionCount(studyContent)
        IN  \A k \in 0..N :
                LET s == PressNext(Runtime, studyContent, k)
                IN  IF k < N
                    THEN /\ s.currentStep = "practice"
                         /\ s.currentQuestionIndex = k
                    ELSE /\ s.currentStep = "review"
                         /\ s.currentQuestionIndex = N - 1

\* C3 witness: review entered from the last question, every answer recorded
\* on the way.
C3_Witness ==
    /\ View = "review"
    /\ currentQuestionIndex = QuestionCount(studyContent) - 1
    /\ DOMAIN userAnswers = {"1", "2", "3"}

\* C4: in practice, 'previous' at index 0 changes nothing, and 'next' at the
\* last index changes the phase to review and nothing else: the index stays
\* len(questions) - 1.
C4_EdgesOfTheQuestionList ==
    View = "practice" =>
        /\ currentQuestionIndex = 0
               => handlePreviousQuestion(Runtime) = Runtime
        /\ currentQuestionIndex = QuestionCount(studyContent) - 1
               => handleNextQuestion(Runtime, studyContent)
                      = [Runtime EXCEPT !.currentStep = "review"]
        /\ handleNextQuestion(Runtime, studyContent).currentQuestionIndex
               <= QuestionCount(studyContent) - 1

\* C4 witness: review reached by 'next' at the last index, the index still
\* that of the last question and its explanation still shown.
C4_Witness ==
    /\ View = "review"
    /\ currentQuestionIndex = QuestionCount(studyContent) - 1
    /\ showExplanation

\* ------------------------------------------------------------ claims: review again

\* C5: a step from the review view to the concepts view of the same session
\* ('Review again') leaves the recorded answers and the session's start
\* timestamp as they were, so the elapsed time shown is not reset.
C5_ReviewAgainKeepsAnswersAndStart ==
    [][(View = "review" /\ View' = "concepts") =>
           /\ userAnswers' = userAnswers
           /\ sessionStartTime' = sessionStartTime
           /\ getSessionDuration(sessionStartTime', now')
                  = getSessionDuration(sessionStartTime, now)]_vars

\* C5 witness: back in concepts after a completed practice pass (the index
\* is that of the last question), with recorded answers and elapsed time.
C5_Witness ==
    /\ View = "concepts"
    /\ currentQuestionIndex = QuestionCount(studyContent) - 1
    /\ DOMAIN userAnswers = {"1", "2", "3"}
    /\ getSessionDuration(sessionStartTime, now) = <<1, 3, 0>>

\* ------------------------------------------------------------ claims: activation

\* C6: every step that activates a session (the runner was not shown and
\* now is) starts it in phase concepts at index 0 with no recorded answer,
\* no explanation shown and no content, whatever an earlier session left.
C6_ActivationStartsFresh ==
    [][(~Mounted /\ Mounted') =>
           /\ currentStep' = "concepts"
           /\ userAnswers' = EmptyRecord
           /\ currentQuestionIndex' = 0
           /\ showExplanation' = FALSE
           /\ studyContent' = Null
           /\ View' = "loading"]_vars

\* C6 witness: a session just activated, some time after the page was
\* loaded, waiting for its content.
C6_Witness ==
    /\ View = "loading"
    /\ inFlight = 1
    /\ userAnswers = EmptyRecord
    /\ currentStep = "concepts"
    /\ sessionStartTime > 0

\* ------------------------------------------------------------ claims: answers

\* C7: selecting an option of a multiple-choice or true-false question in
\* practice stores that option's text under the current question's id, shows
\* the explanation, and leaves the phase, the index and every other
\* question's answer as they were.
C7_SelectOptionRecordsIt ==
    [][\A option \in CurrentOptions(studyContent, currentQuestionIndex) :
           SelectOption(option) =>
               LET id == CurrentQuestionId(studyContent, currentQuestionIndex)
               IN  /\ DOMAIN userAnswers' = DOMAIN userAnswers \cup {id}
                   /\ userAnswers'[id] = option
                   /\ \A k \in DOMAIN userAnswers \ {id} :
                          userAnswers'[k] = userAnswers[k]
                   /\ showExplanation' = TRUE
                   /\ currentStep' = currentStep
                   /\ currentQuestionIndex' = currentQuestionIndex]_vars

\* C7 witness: 'True' selected for the true-false question, with the answers
\* of the two earlier questions still recorded.
C7_Witness ==
    /\ View = "practice"
    /\ CurrentQuestionType(studyContent, currentQuestionIndex) = "true-false"
    /\ showExplanation
    /\ Lookup(userAnswers, "3") = "True"
    /\ Lookup(userAnswers, "1") = "Option B: Advanced definition"
    /\ Lookup(userAnswers, "2") = "my answer"

\* ------------------------------------------------------------ claims: generation failure

\* A generation of the mounted session has failed: it has no content and no
\* generateStudyContent call is suspended.
GenerationFailed == Mounted /\ studyContent = Null /\ inFlight = 0

\* C8: when content generation fails, the runner leaves the loading state
\* and shows the content-unavailable view, whose retry can be taken.
C8_FailureOffersRetry ==
    GenerationFailed => (~isLoading /\ View = "failed" /\ ENABLED TryAgain)

\* ------------------------------------------------------------ claims: the form

\* C9: submitting the form with a topic that is empty or shorter than 3
\* characters activates no session: isStudying stays false, studyData stays
\* null, currentTopic and everything else but the form's own validation
\* state is unchanged, and the topic field gets a validation error.
C9_ShortTopicIsBlocked ==
    [][(SubmitForm /\ Len(formValues.topic) < 3) =>
           /\ isStudying = FALSE /\ isStudying' = FALSE
           /\ studyData = Null /\ studyData' = Null
           /\ currentTopic' = currentTopic
           /\ topicError' \in {ErrRequired, ErrMinLength}
           /\ View' = "form"
           /\ UNCHANGED <<formValues, sessionVars, inFlight, staleInFlight,
                          toast, now>>]_vars

\* C9 witness: the form with the minimum-length error on a 2-character topic
\* and no session.
C9_Witness ==
    /\ View = "form"
    /\ formValues.topic = "ab"
    /\ topicError = ErrMinLength
    /\ ~isStudying
    /\ studyData = Null
    /\ toast = ToastNone

\* C10: 'End session' can be taken in each of the phases concepts, practice
\* and review; taking it leaves the form shown instead of the runner, with
\* isStudying false, studyData null, currentTopic empty and the form's
\* fields and errors reset; a submit that starts a session leaves the form's
\* fields as typed.
C10_EndSessionResetsTheForm ==
    [][/\ MainView => ENABLED EndSession
       /\ EndSession =>
              /\ MainView
              /\ View' = "form"
              /\ isStudying' = FALSE
              /\ studyData' = Null
              /\ currentTopic' = ""
              /\ formValues' = DefaultValues
              /\ topicError' = NoError
              /\ toast' = ToastEnded
       /\ SubmitForm => formValues' = formValues]_vars

\* C10 witness: the form just after a session was ended from review, reset
\* although the session was started with another difficulty and focus.
C10_Witness ==
    /\ View = "form"
    /\ toast = ToastEnded
    /\ currentStep = "review"
    /\ isStudying = FALSE /\ studyData = Null /\ currentTopic = ""
    /\ formValues = DefaultValues

\* ------------------------------------------------------------ claims: entering practice

\* C11: every step from the concepts view to the practice view leaves
\* currentQuestionIndex equal to 0, also when concepts was entered again by
\* 'Review again'.
C11_PracticeStartsAtFirstQuestion ==
    [][(View = "concepts" /\ View' = "practice")
           => currentQuestionIndex' = 0]_vars

\* ------------------------------------------------------------ claims: the explanation

\* C12 as stated: after every 'next' and every 'previous' taken in practice
\* the explanation is hidden.
C12_EveryNavigationHidesExplanation ==
    [][(ClickNext \/ ClickPrevious) => showExplanation' = FALSE]_vars

\* An answer is submitted for the current question: an option is selected,
\* or 'Submit Answer' is pressed.
SubmitsAnAnswer ==
    \/ \E option \in CurrentOptions(studyContent, currentQuestionIndex) :
           SelectOption(option)
    \/ SubmitAnswer

\* C12 amended: within a session every step that changes the current
\* question index ('next' below the last index, 'previous' above 0) leaves
\* the explanation hidden; 'next' at the last index enters review and leaves
\* showExplanation as it was; and the explanation becomes visible only by
\* the submission of an answer for the current question, so a question whose
\* index became current with no submission since has it hidden.
C12_IndexChangeHidesExplanation ==
    [][/\ (Mounted /\ Mounted' /\ currentQuestionIndex' # currentQuestionIndex)
              => showExplanation' = FALSE
       /\ (ClickNext /\ currentQuestionIndex < QuestionCount(studyContent) - 1)
              => (showExplanation' = FALSE /\ View' = "practice")
       /\ (ClickNext /\ currentQuestionIndex = QuestionCount(studyContent) - 1)
              => (showExplanation' = showExplanation /\ View' = "review")
       /\ ClickPrevious => showExplanation' = FALSE
       /\ (~Mounted /\ Mounted') => showExplanation' = FALSE
       /\ (Mounted /\ Mounted' /\ ~showExplanation /\ showExplanation')
              => (SubmitsAnAnswer
                  /\ currentQuestionIndex' = currentQuestionIndex)]_vars

\* C12 witness: the second question just made current by 'previous' from the
\* third, whose explanation had been shown: hidden again.
C12_Witness ==
    /\ View = "practice"
    /\ currentQuestionIndex = 1
    /\ ~showExplanation
    /\ Lookup(userAnswers, "3") = "False"
    /\ Lookup(userAnswers, "2") = Undefined

\* C13: in practice, submitting an answer for the current question records
\* it under the question's id and shows the explanation; for an open-ended
\* question, after 'Submit Answer' the record holds under that id the text
\* the user entered in the textarea.
C13_SubmitRecordsTheAnswer ==
    [][/\ \A option \in CurrentOptions(studyContent, currentQuestionIndex) :
              SelectOption(option) =>
                  /\ Lookup(userAnswers',
                            CurrentQuestionId(studyContent, currentQuestionIndex))
                         = option
                  /\ showExplanation' = TRUE
       /\ SubmitAnswer =>
              /\ CurrentQuestionId(studyContent, currentQuestionIndex)
                     \in DOMAIN userAnswers'
              /\ Lookup(userAnswers',
                        CurrentQuestionId(studyContent, currentQuestionIndex))
                     = textarea
              /\ showExplanation' = TRUE]_vars

\* ------------------------------------------------------------ claims: invariants of a session

\* C14: in every state showing the practice view the current question index
\* is within 0 .. len(questions) - 1.
C14_IndexWithinQuestions ==
    View = "practice" =>
        /\ 0 <= currentQuestionIndex
        /\ currentQuestionIndex <= QuestionCount(studyContent) - 1
        /\ getCurrentQuestion(studyContent, currentQuestionIndex) # NoQuestion

\* C14 witness: practice back at the first question by 'previous', after
\* every question was answered.
C14_Witness ==
    /\ View = "practice"
    /\ currentQuestionIndex = 0
    /\ ~showExplanation
    /\ DOMAIN userAnswers = {"1", "2", "3"}
    /\ Lookup(userAnswers, "3") = "True"

\* C15: within a session the phase changes only from concepts to practice,
\* from practice to review and from review to concepts; 'next' below the
\* last index, 'previous' and the answer actions never change it.
C15_PhaseChanges ==
    [][/\ (Mounted /\ Mounted' /\ currentStep' # currentStep)
              => <<currentStep, currentStep'>>
                     \in { <<"concepts", "practice">>, <<"practice", "review">>,
                           <<"review", "concepts">> }
       /\ (\/ ClickNext /\ currentQuestionIndex
                               < QuestionCount(studyContent) - 1
           \/ ClickPrevious
           \/ SubmitsAnAnswer
           \/ \E text \in Texts : TypeAnswer(text))
              => (currentStep' = currentStep /\ currentStep = "practice")]_vars

\* C15 witness: the review view, reached from practice after answers were
\* given and time has passed.
C15_Witness ==
    /\ View = "review"
    /\ sessionStartTime < now
    /\ Lookup(userAnswers, "1") = "Option D: Simplified definition"
    /\ Lookup(userAnswers, "2") = ""

\* C16: within a session no step removes an entry of the answer record, and
\* entries are added only by steps taken in the practice phase.
C16_AnswersOnlyGrow ==
    [][(Mounted /\ Mounted') =>
           /\ DOMAIN userAnswers \subseteq DOMAIN userAnswers'
           /\ DOMAIN userAnswers' # DOMAIN userAnswers
                  => (View = "practice" /\ View' = "practice")]_vars

\* C16 witness: concepts shown again after 'Review again' (answers are only
\* given in practice) with the three answers of the pass still recorded.
C16_Witness ==
    /\ View = "concepts"
    /\ DOMAIN userAnswers = {"1", "2", "3"}
    /\ Lookup(userAnswers, "1") = "Option C: Technical definition"

\* The ids of the questions of a content.
QuestionIds(content) ==
    IF content = Null THEN {}
    ELSE {content.questions[i].id : i \in DOMAIN content.questions}

\* C17: in every state of a session every key of the answer record is the
\* id of one of the session's questions; the fallback id '' is never a key.
C17_AnswerKeysAreQuestionIds ==
    Mounted =>
        /\ DOMAIN userAnswers \subseteq QuestionIds(studyContent)
        /\ "" \notin DOMAIN userAnswers

\* C17 witness: the last question answered, every question's id a key.
C17_Witness ==
    /\ View = "practice"
    /\ currentQuestionIndex = QuestionCount(studyContent) - 1
    /\ showExplanation
    /\ DOMAIN userAnswers = QuestionIds(studyContent)
    /\ Lookup(userAnswers, "3") = "False"

\* ------------------------------------------------------------ claims: generation

\* C18: no generateStudyContent call outlives its StudySession: a session
\* can be ended only from the main view, where no call is suspended, so no
\* result ever arrives for an unmounted session; every result belongs to the
\* mounted session and changes nothing of HomePage or of the form.
C18_NoGenerationOutlivesItsSession ==
    [][/\ staleInFlight = 0 /\ staleInFlight' = 0
       /\ ~Mounted => inFlight = 0
       /\ EndSession => (inFlight = 0 /\ UNCHANGED sessionVars)
       /\ GenerationResolves
              => (Mounted /\ Mounted' /\ UNCHANGED <<homeVars, formVars>>)]_vars

\* C18 witness: the form after a session was ended, nothing suspended.
C18_Witness ==
    /\ View = "form"
    /\ toast = ToastEnded
    /\ studyContent # Null
    /\ inFlight = 0
    /\ staleInFlight = 0

\* C19: a generation is started only by the activation of a session (one
\* call) or by 'Try Again'; at most one call is suspended at any time; and
\* the content of a session, once set, is never replaced or changed.
C19_OneGenerationPerSession ==
    [][/\ inFlight + staleInFlight <= 1
       /\ inFlight' + staleInFlight' <= 1
       /\ inFlight' + staleInFlight' > inFlight + staleInFlight
              => \/ ~Mounted /\ Mounted' /\ inFlight' = 1
                 \/ TryAgain
       /\ (~Mounted /\ Mounted') => inFlight' = 1
       /\ (Mounted /\ Mounted' /\ studyContent # Null)
              => studyContent' = studyContent]_vars

\* C19 witness: the review view of a session whose only generation has
\* resolved.
C19_Witness ==
    /\ View = "review"
    /\ studyContent = mockContent(currentTopic)
    /\ inFlight = 0
    /\ now = MaxTicks

\* The content is complete: concepts, questions and summary of the topic.
FullyPopulated(content, topic) ==
    /\ content # Null
    /\ Len(content.concepts) > 0
    /\ Len(content.questions) > 0
    /\ content = mockContent(topic)

\* C20: whenever one of the phase views is shown, loading is false and the
\* content is complete; while a generation is suspended or has failed, the
\* loading or the failed view is shown, which display no concept, question
\* or summary.
C20_NoPartialContent ==
    /\ MainView => (~isLoading /\ FullyPopulated(studyContent, currentTopic))
    /\ (Mounted /\ (inFlight > 0 \/ GenerationFailed))
           => (View \in {"loading", "failed"} /\ studyContent = Null)

\* C20 witness: the concepts view right after the content arrived.
C20_Witness ==
    /\ View = "concepts"
    /\ toast = ToastGenerated
    /\ FullyPopulated(studyContent, currentTopic)
    /\ currentQuestionIndex = 0
    /\ userAnswers = EmptyRecord

\* ------------------------------------------------------------ claims: a failing submission

\* C21: a form submission in which an exception is raised shows the failure
\* notification and activates no session, neither fully nor partly:
\* isStudying, studyData and currentTopic keep their values and the form
\* stays shown.
C21_FailedSubmitActivatesNothing ==
    [][SubmitFormThrows =>
           /\ toast' = ToastStartFailed
           /\ isStudying' = isStudying
           /\ studyData' = studyData
           /\ currentTopic' = currentTopic
           /\ View' = "form"]_vars

\* ------------------------------------------------------------ claims: overwriting an answer

\* The ids of the multiple-choice and true-false questions of the session.
OptionQuestionIds ==
    {Questions[i].id : i \in {j \in DOMAIN Questions :
        Questions[j].type \in {"multiple-choice", "true-false"}}}

\* C22: within a session, while the explanation is shown for a
\* multiple-choice or true-false question no step changes that question's
\* recorded answer; a step changes the recorded answer of such a question
\* only if the question is the current one in practice with its explanation
\* hidden, and overwrites one only with one of the question's options; and
\* the score of a review state counts exactly the questions whose answer
\* now in the record is their correctAnswer.
C22_AnswerLockedWhileExplained ==
    [][/\ (Mounted /\ Mounted') =>
              \A id \in OptionQuestionIds :
                  Lookup(userAnswers', id) # Lookup(userAnswers, id) =>
                      /\ View = "practice"
                      /\ ~showExplanation
                      /\ id = CurrentQuestionId(studyContent,
                                                currentQuestionIndex)
                      /\ userAnswers'[id]
                             \in CurrentOptions(studyContent,
                                                currentQuestionIndex)
                      /\ showExplanation' = TRUE
       /\ View' = "review" =>
              Score' = MathRound(100 * Cardinality(CorrectPositions'),
                                 Len(Questions'))]_vars

\* C22 witness: the first question current again after the third was
\* answered, an answer for it submitted on this visit and its explanation
\* shown, so that its options are disabled.
C22_Witness ==
    /\ View = "practice"
    /\ currentQuestionIndex = 0
    /\ showExplanation
    /\ Lookup(userAnswers, "1") = "Option A: Basic definition"
    /\ Lookup(userAnswers, "3") = "True"

====
